---- MODULE Spec2Model ----
(***************************************************************************)
(* Model of the curve topology reconstruction of pysurf:                   *)
(*   TSurf/python/tsurf_geometry.py  FEsort, and its only caller, the      *)
(*   curve loop of getCGNSsections.                                        *)
(*                                                                         *)
(* The module also models FEsort_dumb and Curve.flip of the same file and   *)
(* the Manager class of managerClass.py; each has its own specification    *)
(* (DumbSpec, FlipSpec, ManagerSpec) in which the other parts stay idle.   *)
(*                                                                         *)
(* Under Spec,                                                             *)
(* one behaviour is the treatment of one curve section: the caller slices  *)
(* the bar connectivity (barsSlice, a 2 x N array), calls FEsort on its    *)
(* transposed list form, FEsort runs its passes, converts the working      *)
(* polylines to FE arrays and returns, and the caller stores an entry in   *)
(* the section dictionary.  A Python exception ends the behaviour in       *)
(* pc = "raised".                                                          *)
(*                                                                         *)
(* Python values that may be None are records [tag, val]; node ids stored  *)
(* in the float arrays built by np.zeros are whole numbers and are         *)
(* modelled as integers.                                                   *)
(***************************************************************************)
EXTENDS Integers, Sequences, FiniteSets, TLC

\* ------------------------------------------------------------------ bounds
\* Unrestricted inputs (self-loops, duplicate bars, the empty list): node ids
\* 1..MaxNode, at most MaxBars bars.
MaxNode == 4
MaxBars == 3
\* Well-formed inputs (no self-loop, no duplicate bar), long: node ids
\* 1..MaxValidNode, at most MaxValidBars bars.
MaxValidNode == 4
MaxValidBars == 4
\* Well-formed inputs, wide: node ids 1..MaxWideNode, at most MaxWideBars bars.
MaxWideNode == 5
MaxWideBars == 3
\* Well-formed inputs whose first bar is [1,2]: node ids 1..MaxPinNode, at most
\* MaxPinBars bars.
MaxPinNode == 5
MaxPinBars == 4

Nodes == 1..MaxNode
ValidNodes == 1..MaxValidNode
WideNodes == 1..MaxWideNode
PinNodes == 1..MaxPinNode
\* node ids of the two-curve scenario [(5,6),(7,8)]
ScenarioNodes == 5..8
AllNodes == Nodes \cup ValidNodes \cup WideNodes \cup PinNodes \cup ScenarioNodes

VARIABLES
  barsSlice,        \* getCGNSsections: barsConn[:,iBarsStart:iBarsEnd], 2 x N
  barsConn,         \* FEsort: the argument, a list of [a,b]
  newConn,          \* FEsort: working list of polylines (lists of node ids)
  oldConn,          \* FEsort: queue of the current pass
  keep_searching,   \* FEsort: flag of the outer loop
  passLen,          \* len(oldConn) right after the copy that opens a pass
  isArg,            \* FEsort: which of the names newConn, oldConn denote the
                    \* very list object that was passed as argument
  sortedConn,       \* getCGNSsections: value returned by FEsort
  sectionDict,      \* getCGNSsections: sectionDict[curve]
  printed,          \* getCGNSsections: the "could not be sorted" message
  exc,              \* the exception that ended the run, "" if none
  pc,
  dumb,             \* FEsort_dumb: its argument, its locals, its position
                    \* and what it returned or raised
  curveObj,         \* a Curve object (barsConn) and the position of the
                    \* caller that flips it
  self,             \* the Manager object: geoms, intCurves, meshGenerators,
                    \* tasks, points, updated, baseFunction frame
  call,             \* the last call made on the Manager: method, arguments,
                    \* exception raised, AD routines it ran, seeds it set
  hist              \* history of the Manager: point sets that have seen
                    \* setDesignVars and no update since, removals

fesortVars == <<barsSlice, barsConn, newConn, oldConn, keep_searching,
                passLen, isArg, sortedConn, sectionDict, printed, exc, pc>>

vars == <<fesortVars, dumb, curveObj, self, call, hist>>

\* ------------------------------------------------------------ Python values
None == [tag |-> "None", val |-> <<>>]
Some(v) == [tag |-> "value", val |-> v]

\* seq[::-1]
RECURSIVE Reverse(_)
Reverse(s) == IF s = <<>> THEN <<>> ELSE Append(Reverse(Tail(s)), Head(s))

\* seq[:-1]
Front(s) == SubSeq(s, 1, Len(s) - 1)

\* seq[-1]
Last(s) == s[Len(s)]

\* ---------------------------------------------------------------- inputs
\* barsConn[:,iBarsStart:iBarsEnd].T.tolist()
TransposeToList(slice) ==
  [ i \in 1..Len(slice[1]) |-> <<slice[1][i], slice[2][i]>> ]

\* direction-insensitive form of a bar
Norm(e) == IF e[1] <= e[2] THEN <<e[1], e[2]>> ELSE <<e[2], e[1]>>

NoSelfLoop(E) == \A i \in DOMAIN E : E[i][1] # E[i][2]
NoDuplicate(E) == \A i, j \in DOMAIN E : i # j => Norm(E[i]) # Norm(E[j])
WellFormed(E) == NoSelfLoop(E) /\ NoDuplicate(E)

\* ------------------------------------------------------------- FEsort body
\* The tests with the last one (tail against tail) left out.
MatchesNoTailTail(oldElement, newElement) ==
  \/ oldElement[1] = newElement[1]
  \/ oldElement[1] = Last(newElement)
  \/ Last(oldElement) = newElement[1]

\* The tests written with a truth test of the node id in front, so that the
\* id 0 never matches.
MatchesTruthy(oldElement, newElement) ==
  \/ oldElement[1] # 0 /\ oldElement[1] = newElement[1]
  \/ oldElement[1] # 0 /\ oldElement[1] = Last(newElement)
  \/ Last(oldElement) # 0 /\ Last(oldElement) = newElement[1]
  \/ Last(oldElement) # 0 /\ Last(oldElement) = Last(newElement)

\* The four endpoint tests of the for loop, in source order.
Matches(oldElement, newElement) ==
  \/ oldElement[1] = newElement[1]
  \/ oldElement[1] = Last(newElement)
  \/ Last(oldElement) = newElement[1]
  \/ Last(oldElement) = Last(newElement)

\* Join that keeps the shared node of both lists in the second test.
JoinKeepShared(oldElement, newElement) ==
  IF oldElement[1] = newElement[1]
    THEN Reverse(oldElement) \o Tail(newElement)
  ELSE IF oldElement[1] = Last(newElement)
    THEN newElement \o oldElement
  ELSE IF Last(oldElement) = newElement[1]
    THEN oldElement \o Tail(newElement)
  ELSE Front(newElement) \o Reverse(oldElement)

\* Join with the flip of the first test forgotten.
JoinNoFlip(oldElement, newElement) ==
  IF oldElement[1] = newElement[1]
    THEN oldElement \o Tail(newElement)
  ELSE IF oldElement[1] = Last(newElement)
    THEN Front(newElement) \o oldElement
  ELSE IF Last(oldElement) = newElement[1]
    THEN oldElement \o Tail(newElement)
  ELSE Front(newElement) \o Reverse(oldElement)

\* The assignment to newConn[newElemCounter] of the first test that succeeds.
Join(oldElement, newElement) ==
  IF oldElement[1] = newElement[1]
    THEN Reverse(oldElement) \o Tail(newElement)
  ELSE IF oldElement[1] = Last(newElement)
    THEN Front(newElement) \o oldElement
  ELSE IF Last(oldElement) = newElement[1]
    THEN oldElement \o Tail(newElement)
  ELSE Front(newElement) \o Reverse(oldElement)

\* LinkInto that joins the element to the last polyline it matches.
LinkIntoLast(conn, oldElement) ==
  LET hits == { i \in DOMAIN conn : Matches(oldElement, conn[i]) } IN
  IF hits = {}
    THEN Append(conn, oldElement)
    ELSE LET k == CHOOSE i \in hits : \A j \in hits : i >= j
         IN  [conn EXCEPT ![k] = Join(oldElement, conn[k])]

\* LinkInto that opens a new polyline at the front of the working list.
LinkIntoFront(conn, oldElement) ==
  LET hits == { i \in DOMAIN conn : Matches(oldElement, conn[i]) } IN
  IF hits = {}
    THEN <<oldElement>> \o conn
    ELSE LET k == CHOOSE i \in hits : \A j \in hits : i <= j
         IN  [conn EXCEPT ![k] = Join(oldElement, conn[k])]

\* One iteration of "while len(oldConn) > 0" applied to the working list:
\* the element joins the first polyline it matches, or opens a new one.
LinkInto(conn, oldElement) ==
  LET hits == { i \in DOMAIN conn : Matches(oldElement, conn[i]) } IN
  IF hits = {}
    THEN Append(conn, oldElement)
    ELSE LET k == CHOOSE i \in hits : \A j \in hits : i <= j
         IN  [conn EXCEPT ![k] = Join(oldElement, conn[k])]

\* The flag is raised for every element, merged or not.
LinkedAlways(conn, oldElement) == TRUE

\* The flag is never raised: a merge does not request another pass.
LinkedForgotten(conn, oldElement) == FALSE

Linked(conn, oldElement) ==
  \E i \in DOMAIN conn : Matches(oldElement, conn[i])

\* The conversion with the last bar of every polyline left out.
FEcurveShort(curve) ==
  << [ p \in 1..(Len(curve) - 2) |-> curve[p] ],
     [ p \in 1..(Len(curve) - 2) |-> curve[p + 1] ] >>

\* FE array of one polyline: np.zeros((2,len(curve)-1)) filled with
\* FEcurve[0,p-1] = curve[p-1], FEcurve[1,p-1] = curve[p].
FEcurve(curve) ==
  << [ p \in 1..(Len(curve) - 1) |-> curve[p] ],
     [ p \in 1..(Len(curve) - 1) |-> curve[p + 1] ] >>

FEarrays(conn) == [ c \in DOMAIN conn |-> FEcurve(conn[c]) ]

\* One whole pass of the outer loop over the queue: the working list it
\* leaves and whether it asked for another pass.
RECURSIVE RunPass(_, _, _)
RunPass(queue, conn, flag) ==
  IF queue = <<>>
    THEN [conn |-> conn, flag |-> flag]
    ELSE RunPass(Tail(queue), LinkInto(conn, Head(queue)),
                 flag \/ Linked(conn, Head(queue)))

\* The outer loop on a non-empty list, as a function of the list.
RECURSIVE FEsortLoop(_)
FEsortLoop(conn) ==
  LET r == RunPass(Tail(conn), <<Head(conn)>>, FALSE) IN
  IF r.flag THEN FEsortLoop(r.conn) ELSE r.conn

\* FEsort as a function of a non-empty bar list.
FEsortOf(bars) == FEarrays(FEsortLoop(bars))

\* ------------------------------------------------------------ idle parts
\* The values of the parts that take no part in a behaviour: FEsort_dumb not
\* called, no Curve object, a Manager nobody constructed, no call made.
DumbIdle ==
  [ barsConnIn |-> <<>>, flatArray |-> <<>>, end_not_found |-> FALSE,
    end_node |-> None, start_node |-> None, barsConn |-> <<>>,
    newConn |-> <<>>, noFail |-> FALSE, ret |-> None, exc |-> "",
    pc |-> "idle" ]

CurveIdle ==
  [ barsConn |-> <<>>, given |-> <<>>, flips |-> 0, ii |-> 0, pc |-> "idle" ]

ManagerIdle ==
  [ geoms |-> <<>>, intCurves |-> <<>>, meshGenerators |-> <<>>,
    tasks |-> <<>>, points |-> <<>>, updated |-> <<>>,
    baseFunction |-> FALSE, surface |-> 0, frame |-> "idle",
    ptSetName |-> None ]

NoCall ==
  [ method |-> "", arg |-> <<>>, raised |-> "", ad |-> "", ran |-> <<>>,
    seeded |-> FALSE, dropped |-> <<>>, nr |-> 0 ]

NoHist == [ outdated |-> {}, late |-> {}, removed |-> FALSE ]

FEsortIdle ==
  /\ barsSlice = << <<>>, <<>> >>
  /\ barsConn = <<>>
  /\ newConn = <<>>
  /\ oldConn = <<>>
  /\ keep_searching = FALSE
  /\ passLen = 0
  /\ isArg = [new |-> FALSE, old |-> FALSE]
  /\ sortedConn = None
  /\ sectionDict = None
  /\ printed = FALSE
  /\ exc = ""
  /\ pc = "idle"

\* ---------------------------------------------------------------- actions
\* The state in which getCGNSsections has sliced the connectivity of one
\* curve and is about to call FEsort.
Start(slice) ==
  /\ barsSlice = slice
  /\ barsConn = <<>>
  /\ newConn = <<>>
  /\ oldConn = <<>>
  /\ keep_searching = FALSE
  /\ passLen = 0
  /\ isArg = [new |-> FALSE, old |-> FALSE]
  /\ sortedConn = None
  /\ sectionDict = None
  /\ printed = FALSE
  /\ exc = ""
  /\ pc = "call"
  /\ dumb = DumbIdle
  /\ curveObj = CurveIdle
  /\ self = ManagerIdle
  /\ call = NoCall
  /\ hist = NoHist

\* Any 2 x n array of node ids, n = 0 included: row 1 holds the first node of
\* every bar, row 2 the second node.
InitAny ==
  \E n \in 0..MaxBars :
    \E r1 \in [1..n -> Nodes], r2 \in [1..n -> Nodes] : Start(<<r1, r2>>)

\* The arrays without self-loop and without duplicate bar, n >= 1, in two
\* sizes: more bars on fewer nodes, fewer bars on more nodes.
InitValid ==
  \E n \in 1..MaxValidBars :
    \E r1 \in [1..n -> ValidNodes], r2 \in [1..n -> ValidNodes] :
      /\ WellFormed(TransposeToList(<<r1, r2>>))
      /\ Start(<<r1, r2>>)

InitWide ==
  \E n \in 1..MaxWideBars :
    \E r1 \in [1..n -> WideNodes], r2 \in [1..n -> WideNodes] :
      /\ WellFormed(TransposeToList(<<r1, r2>>))
      /\ Start(<<r1, r2>>)

\* The well-formed arrays of two to MaxPinBars bars that start with the bar
\* [1,2]; the longest inputs on the widest node range.
InitPinned ==
  \E n \in 2..MaxPinBars :
    \E r1 \in [1..n -> PinNodes], r2 \in [1..n -> PinNodes] :
      /\ r1[1] = 1
      /\ r2[1] = 2
      /\ WellFormed(TransposeToList(<<r1, r2>>))
      /\ Start(<<r1, r2>>)

\* The section made of the two separate bars [5,6] and [7,8].
InitScenario == Start(<< <<5, 7>>, <<6, 8>> >>)

Init == InitAny \/ InitValid \/ InitWide \/ InitPinned \/ InitScenario

\* getCGNSsections calls FEsort; FEsort binds newConn to its argument.
CallFEsort ==
  /\ pc = "call"
  /\ barsConn' = TransposeToList(barsSlice)
  /\ newConn' = TransposeToList(barsSlice)
  /\ isArg' = [new |-> TRUE, old |-> FALSE]
  /\ keep_searching' = TRUE
  /\ pc' = "while"
  /\ UNCHANGED <<dumb, curveObj, self, call, hist, barsSlice, oldConn, passLen, sortedConn, sectionDict,
                 printed, exc>>

\* A plain assignment instead of the copy: the new name denotes the same list.
PlainAssignIsArg(srcIsArg) == srcIsArg

\* oldConn = newConn[:] builds a new list object, whatever newConn denotes.
SliceCopyIsArg(srcIsArg) == FALSE

\* list.pop(0) acts on the list object itself: the argument loses its first
\* element when the popped name denotes it.
ArgAfterPop(arg, poppedIsArg) == IF poppedIsArg THEN Tail(arg) ELSE arg

\* Head of one outer iteration: copy the working list, pop its first element
\* into a fresh working list.  pop(0) on an empty list raises IndexError.
StartPass ==
  /\ pc = "while"
  /\ keep_searching
  /\ keep_searching' = FALSE
  /\ passLen' = Len(newConn)
  /\ isArg' = [new |-> FALSE, old |-> SliceCopyIsArg(isArg.new)]
  /\ IF newConn = <<>>
       THEN /\ oldConn' = <<>>
            /\ newConn' = newConn
            /\ barsConn' = barsConn
            /\ exc' = "IndexError"
            /\ pc' = "raised"
       ELSE /\ oldConn' = Tail(newConn)
            /\ newConn' = <<Head(newConn)>>
            /\ barsConn' = ArgAfterPop(barsConn, isArg'.old)
            /\ exc' = exc
            /\ pc' = IF Tail(newConn) = <<>> THEN "while" ELSE "inner"
  /\ UNCHANGED <<dumb, curveObj, self, call, hist, barsSlice, sortedConn, sectionDict, printed>>

\* One iteration of the inner while loop.  The pop and the item assignment
\* or append act on the list objects oldConn and newConn denote.
LinkElement ==
  /\ pc = "inner"
  /\ Len(oldConn) > 0
  /\ LET oldElement == Head(oldConn) IN
       /\ oldConn' = Tail(oldConn)
       /\ newConn' = LinkInto(newConn, oldElement)
       /\ keep_searching' = (keep_searching \/ Linked(newConn, oldElement))
       /\ barsConn' = IF isArg.new
                        THEN LinkInto(newConn, oldElement)
                        ELSE ArgAfterPop(barsConn, isArg.old)
  /\ pc' = IF Len(oldConn) = 1 THEN "while" ELSE "inner"
  /\ UNCHANGED <<dumb, curveObj, self, call, hist, barsSlice, passLen, isArg, sortedConn, sectionDict,
                 printed, exc>>

\* The return that yields None when more than one polyline is left.
ReturnNoneIfSplit ==
  /\ pc = "while"
  /\ ~keep_searching
  /\ sortedConn' = IF Len(newConn) > 1 THEN None ELSE Some(FEarrays(newConn))
  /\ pc' = "returned"
  /\ UNCHANGED <<dumb, curveObj, self, call, hist, barsSlice, barsConn, newConn, oldConn, keep_searching,
                 passLen, isArg, sectionDict, printed, exc>>

\* The outer loop ends; the polylines are converted and returned.
ReturnFE ==
  /\ pc = "while"
  /\ ~keep_searching
  /\ sortedConn' = Some(FEarrays(newConn))
  /\ pc' = "returned"
  /\ UNCHANGED <<dumb, curveObj, self, call, hist, barsSlice, barsConn, newConn, oldConn, keep_searching,
                 passLen, isArg, sectionDict, printed, exc>>

\* np.array(sortedConn): the list of 2 x N_c arrays stacks into a k x 2 x N
\* array only when all N_c are equal; otherwise the first two dimensions
\* agree, the third does not, and numpy raises ValueError.
Stackable(fe) == \A c, d \in DOMAIN fe : Len(fe[c][1]) = Len(fe[d][1])

\* np.array(sortedConn).T of a k x 2 x N stack: the axes are reversed, the
\* result is N x 2 x k with T[n][r][c] = sortedConn[c][r][n].
StackTransposed(fe) ==
  [ n \in 1..Len(fe[1][1]) |->
      [ r \in 1..2 |-> [ c \in 1..Len(fe) |-> fe[c][r][n] ] ] ]

\* getCGNSsections after the call: keep the sorted connectivity, or fall back
\* to the unsorted slice and print the message when FEsort returned None.
StoreSection ==
  /\ pc = "returned"
  /\ IF sortedConn = None
       THEN /\ sectionDict' = Some(barsSlice)
            /\ printed' = TRUE
            /\ exc' = exc
            /\ pc' = "stored"
       ELSE /\ printed' = printed
            /\ IF Stackable(sortedConn.val)
                 THEN /\ sectionDict' = Some(StackTransposed(sortedConn.val))
                      /\ exc' = exc
                      /\ pc' = "stored"
                 ELSE /\ sectionDict' = sectionDict
                      /\ exc' = "ValueError"
                      /\ pc' = "raised"
  /\ UNCHANGED <<dumb, curveObj, self, call, hist, barsSlice, barsConn, newConn, oldConn, keep_searching,
                 passLen, isArg, sortedConn>>

Next == CallFEsort \/ StartPass \/ LinkElement \/ ReturnFE \/ StoreSection

Spec == Init /\ [][Next]_vars

\* The interpreter always executes the next statement of the single thread.
FairSpec == Spec /\ WF_vars(Next)

\* ===================================================================
\* Vocabulary of the properties
\* ===================================================================
\* FEsort has returned (the value stays in sortedConn afterwards).
Returned == sortedConn # None

\* The polylines returned, as FE arrays.
Polylines == sortedConn.val

\* Vertex sequence of a returned polyline: the first row followed by the
\* last entry of the second row.
Vertices(fe) == fe[1] \o <<Last(fe[2])>>

\* Positions (polyline, column) of the bars of the output, and the bar there.
OutPositions ==
  UNION { { <<c, p>> : p \in DOMAIN Polylines[c][1] } : c \in DOMAIN Polylines }
OutBar(pos) == <<Polylines[pos[1]][1][pos[2]], Polylines[pos[1]][2][pos[2]]>>

\* Graph of a bar list.
Touched(E) == { E[i][1] : i \in DOMAIN E } \cup { E[i][2] : i \in DOMAIN E }
BarsAt(E, v) == { i \in DOMAIN E : v = E[i][1] \/ v = E[i][2] }
MaxTouch(E) == \A v \in Touched(E) : Cardinality(BarsAt(E, v)) <= 2
HasBranch(E) == \E v \in Touched(E) : Cardinality(BarsAt(E, v)) >= 3
BranchNodes(E) == { v \in Touched(E) : Cardinality(BarsAt(E, v)) >= 3 }

RECURSIVE Grow(_, _)
Grow(E, S) ==
  LET S2 == S \cup { w \in Touched(E) :
                      \E i \in DOMAIN E :
                        /\ w \in {E[i][1], E[i][2]}
                        /\ {E[i][1], E[i][2]} \cap S # {} }
  IN  IF S2 = S THEN S ELSE Grow(E, S2)
Component(E, v) == Grow(E, {v})
Components(E) == { Component(E, v) : v \in Touched(E) }
Connected(E, u, v) == v \in Component(E, u)

SamePolyline(u, v) ==
  \E c \in DOMAIN Polylines :
    LET vs == Vertices(Polylines[c]) IN
      /\ \E i \in DOMAIN vs : vs[i] = u
      /\ \E i \in DOMAIN vs : vs[i] = v

\* ===================================================================
\* C1  Edge conservation: for a non-empty input without self-loop and
\* without duplicate bar (branching inputs included), the bars read off the
\* returned polylines, compared direction-insensitively, are the input bars
\* with the same multiplicities: every input bar sits at exactly one output
\* position and every output bar is an input bar.
\* ===================================================================
EdgeConservation ==
  (Returned /\ WellFormed(barsConn)) =>
    /\ \A a, b \in AllNodes :
         Cardinality({ pos \in OutPositions : Norm(OutBar(pos)) = Norm(<<a, b>>) })
           = Cardinality({ i \in DOMAIN barsConn :
                             Norm(barsConn[i]) = Norm(<<a, b>>) })
    /\ \A i \in DOMAIN barsConn :
         Cardinality({ pos \in OutPositions :
                         Norm(OutBar(pos)) = Norm(barsConn[i]) }) = 1
    /\ \A pos \in OutPositions :
         \E i \in DOMAIN barsConn : Norm(barsConn[i]) = Norm(OutBar(pos))

\* A branching well-formed input of three or more bars has been sorted into
\* several polylines after more than one merge.
EdgeConservationWitness ==
  /\ pc = "returned"
  /\ WellFormed(barsConn)
  /\ HasBranch(barsConn)
  /\ Len(barsConn) >= 3
  /\ Len(Polylines) = 2
  /\ \E c \in DOMAIN Polylines : Len(Polylines[c][1]) >= 2

\* ===================================================================
\* C2  Connectivity fidelity: for a non-empty input in which every node is
\* touched by at most two bars, two nodes lie in the same returned polyline
\* exactly when a path of input bars connects them, and there are as many
\* polylines as connected components.
\* ===================================================================
ConnectivityFidelity ==
  (Returned /\ barsConn # <<>> /\ MaxTouch(barsConn)) =>
    /\ \A u, v \in Touched(barsConn) :
         SamePolyline(u, v) <=> Connected(barsConn, u, v)
    /\ Len(Polylines) = Cardinality(Components(barsConn))

\* Two components, one of them a two-bar path whose bars are separated in the
\* input by the bar of the other component.
ConnectivityFidelityWitness ==
  /\ pc = "returned"
  /\ WellFormed(barsConn)
  /\ MaxTouch(barsConn)
  /\ Len(barsConn) = 3
  /\ Cardinality(Components(barsConn)) = 2
  /\ Touched(<<barsConn[1]>>) \cap Touched(<<barsConn[2]>>) = {}
  /\ Touched(<<barsConn[1]>>) \cap Touched(<<barsConn[3]>>) # {}
  /\ Len(Polylines) = 2

\* ===================================================================
\* C3  Out-of-order merging: for the bars of a simple open path v0..vk, in
\* any order and any orientation, exactly one polyline is returned and its
\* vertex sequence is v0..vk or the reverse; [(2,3),(3,4)] gives [2,3,4],
\* [(1,2),(3,4),(2,3)] gives [1,2,3,4], a single bar gives one two-vertex
\* polyline.
\* ===================================================================
IsOpenPath(E) ==
  /\ E # <<>>
  /\ WellFormed(E)
  /\ MaxTouch(E)
  /\ Cardinality(Components(E)) = 1
  /\ Cardinality(Touched(E)) = Len(E) + 1

IsCycle(E) ==
  /\ Len(E) >= 3
  /\ WellFormed(E)
  /\ \A v \in Touched(E) : Cardinality(BarsAt(E, v)) = 2
  /\ Cardinality(Components(E)) = 1

\* The walk along unused bars from node v.
RECURSIVE Walk(_, _, _)
Walk(E, used, v) ==
  LET cand == { i \in BarsAt(E, v) : i \notin used } IN
  IF cand = {}
    THEN <<v>>
    ELSE LET i == CHOOSE j \in cand : TRUE
             w == IF E[i][1] = v THEN E[i][2] ELSE E[i][1]
         IN  <<v>> \o Walk(E, used \cup {i}, w)

\* v0..vk of an open path, v0 being the smaller of its two free ends.
PathOf(E) ==
  LET ends == { v \in Touched(E) : Cardinality(BarsAt(E, v)) = 1 }
      v0 == CHOOSE v \in ends : \A w \in ends : v <= w
  IN  Walk(E, {}, v0)

OutOfOrderMerging ==
  Returned =>
    /\ IsOpenPath(barsConn) =>
         /\ Len(Polylines) = 1
         /\ \/ Vertices(Polylines[1]) = PathOf(barsConn)
            \/ Vertices(Polylines[1]) = Reverse(PathOf(barsConn))
    /\ barsConn = << <<2, 3>>, <<3, 4>> >> =>
         Polylines = << << <<2, 3>>, <<3, 4>> >> >>
    /\ barsConn = << <<1, 2>>, <<3, 4>>, <<2, 3>> >> =>
         Polylines = << << <<1, 2, 3>>, <<2, 3, 4>> >> >>
    /\ (Len(barsConn) = 1 /\ NoSelfLoop(barsConn)) =>
         /\ Len(Polylines) = 1
         /\ Vertices(Polylines[1]) = barsConn[1]

\* A three-bar path whose first two bars do not touch, so that the merge
\* completes only in a later pass.
OutOfOrderMergingWitness ==
  /\ pc = "returned"
  /\ IsOpenPath(barsConn)
  /\ Len(barsConn) = 3
  /\ Touched(<<barsConn[1]>>) \cap Touched(<<barsConn[2]>>) = {}
  /\ Len(Polylines) = 1
  /\ Len(Vertices(Polylines[1])) = 4

\* ===================================================================
\* C4  Closed loops: for the bars of a simple cycle on n >= 3 nodes, in any
\* order and orientation, exactly one polyline of n+1 entries is returned,
\* its first and last entries are the same node and the other entries are
\* pairwise distinct; [(1,2),(2,3),(3,1)] gives [1,2,3,1].
\* ===================================================================
ClosedLoops ==
  Returned =>
    /\ IsCycle(barsConn) =>
         /\ Len(Polylines) = 1
         /\ LET vs == Vertices(Polylines[1]) IN
              /\ Len(vs) = Len(barsConn) + 1
              /\ vs[1] = vs[Len(vs)]
              /\ \A i, j \in 1..(Len(vs) - 1) : i # j => vs[i] # vs[j]
    /\ barsConn = << <<1, 2>>, <<2, 3>>, <<3, 1>> >> =>
         (Len(Polylines) = 1 /\ Vertices(Polylines[1]) = <<1, 2, 3, 1>>)

\* A four-node cycle given so that two separate pieces are built first.
ClosedLoopsWitness ==
  /\ pc = "returned"
  /\ IsCycle(barsConn)
  /\ Len(barsConn) = 4
  /\ Touched(<<barsConn[1]>>) \cap Touched(<<barsConn[2]>>) = {}
  /\ Len(Polylines) = 1
  /\ Vertices(Polylines[1])[1] = Vertices(Polylines[1])[5]

\* ===================================================================
\* C5  Branch detection: whenever a node of the input is touched by three
\* or more bars, the reconstructor signals a degraded result to its caller
\* (the only failure signal of FEsort is the return value None).
\* ===================================================================
BranchDetection ==
  (pc = "returned" /\ WellFormed(barsConn) /\ HasBranch(barsConn)) =>
    sortedConn = None

\* ===================================================================
\* C6  Empty input: FEsort called with an empty bar list raises nothing and
\* returns an empty polyline collection.
\* ===================================================================
EmptyInput ==
  (Len(barsSlice[1]) = 0) =>
    /\ pc # "raised"
    /\ exc = ""
    /\ pc = "returned" => (Returned /\ Polylines = <<>>)

\* ===================================================================
\* C7  Malformed input is rejected up front: for an input with a self-loop
\* bar or a duplicate bar no stitching step is performed and no polyline is
\* built or returned.
\* ===================================================================
MalformedRejected ==
  (~WellFormed(barsConn)) =>
    /\ pc # "inner"
    /\ oldConn = <<>>
    /\ sortedConn = None
    /\ sectionDict = None

\* ===================================================================
\* C8  Caller fallback: when the bars of a section have a branch node or
\* form disconnected curves, FEsort returns None and getCGNSsections stores
\* the original unsorted connectivity and prints the message.
\* ===================================================================
Degrades(E) == HasBranch(E) \/ Cardinality(Components(E)) > 1

CallerFallback ==
  (WellFormed(barsConn) /\ Degrades(barsConn)) =>
    /\ pc = "returned" => sortedConn = None
    /\ pc \in {"stored", "raised"} =>
         /\ pc = "stored"
         /\ sectionDict = Some(barsSlice)
         /\ printed

\* ===================================================================
\* C9  Termination: for every non-empty input FEsort reaches its return
\* statement; every step of the inner loop shortens the queue by one, and a
\* pass that ends with another pass requested leaves strictly fewer working
\* polylines than it started with.
\* ===================================================================
InFEsort == pc \in {"while", "inner"}

PassProgress ==
  /\ (pc = "inner" /\ InFEsort') => Len(oldConn') = Len(oldConn) - 1
  /\ (pc = "while" /\ InFEsort') => Len(oldConn') = Len(newConn) - 1
  /\ (InFEsort /\ pc' = "while" /\ keep_searching') => Len(newConn') < passLen'
  /\ (InFEsort /\ pc' = "while") => Len(newConn') <= passLen'

Termination ==
  /\ [][PassProgress]_vars
  /\ (pc = "call" /\ Len(barsSlice[1]) > 0) ~> (pc = "returned")

\* A run of several passes that ended with more than one polyline.
TerminationWitness ==
  /\ pc = "returned"
  /\ Len(barsConn) >= 3
  /\ passLen >= 2
  /\ passLen < Len(barsConn)
  /\ Len(newConn) = passLen

RECURSIVE BarList(_)
BarList(fes) ==
  IF fes = <<>> THEN <<>>
  ELSE [ p \in DOMAIN fes[1][1] |-> <<fes[1][1][p], fes[1][2][p]>> ]
         \o BarList(Tail(fes))

\* Two collections hold the same polylines up to reversal of single
\* polylines and reordering of the collection.
SameUpToDirection(P, Q) ==
  /\ Len(P) = Len(Q)
  /\ \A i \in DOMAIN P : \E j \in DOMAIN Q :
       Vertices(Q[j]) = Vertices(P[i]) \/ Vertices(Q[j]) = Reverse(Vertices(P[i]))
  /\ \A j \in DOMAIN Q : \E i \in DOMAIN P :
       Vertices(Q[j]) = Vertices(P[i]) \/ Vertices(Q[j]) = Reverse(Vertices(P[i]))

\* The run of the actions computes the function FEsortOf of the argument.
RunIsFunction == (pc = "returned") => Polylines = FEsortOf(barsConn)

\* ===================================================================
\* C11  Idempotence (original statement): for every well-formed input,
\* sorting the bars of the output again yields the same polylines up to
\* reversal and reordering.
\* ===================================================================
IdempotenceAllValid ==
  (pc = "returned" /\ WellFormed(barsConn)) =>
    SameUpToDirection(FEsortOf(BarList(Polylines)), Polylines)

\* C11 as amended: the same for every well-formed input in which every node
\* is touched by at most two bars.
Idempotence ==
  (pc = "returned" /\ WellFormed(barsConn) /\ MaxTouch(barsConn)) =>
    SameUpToDirection(FEsortOf(BarList(Polylines)), Polylines)

\* A path and a separate bar, given out of order, have been sorted into two
\* polylines whose bars differ from the input in order and orientation.
IdempotenceWitness ==
  /\ pc = "returned"
  /\ WellFormed(barsConn)
  /\ MaxTouch(barsConn)
  /\ Len(barsConn) = 3
  /\ Len(Polylines) = 2
  /\ BarList(Polylines) # barsConn
  /\ SameUpToDirection(FEsortOf(BarList(Polylines)), Polylines)

\* ===================================================================
\* C12  No vertex revisits: for every input in which no node has more than
\* two bar ends, no returned polyline holds the same node twice, except
\* that its first and last entries may be equal.
\* ===================================================================
BarEnds(E, v) ==
  Cardinality({ i \in DOMAIN E : E[i][1] = v })
    + Cardinality({ i \in DOMAIN E : E[i][2] = v })
MaxDegree(E) == \A v \in Touched(E) : BarEnds(E, v) <= 2

FirstBarOf(E, fe) ==
  LET vs == Vertices(fe)
      idx == { i \in DOMAIN E :
                 \E p \in DOMAIN vs : vs[p] = E[i][1] \/ vs[p] = E[i][2] }
  IN  CHOOSE i \in idx : \A j \in idx : i <= j

NoSideEffects ==
  /\ [](pc # "call" => barsConn = TransposeToList(barsSlice))
  /\ [][pc # "call" => barsConn' = barsConn]_vars
  /\ [](pc \in {"inner", "returned"} => (~isArg.new /\ ~isArg.old))

\* FEsort has popped and merged its way to a single polyline and the
\* argument still holds the three or more bars of the input.
NoSideEffectsWitness ==
  /\ pc = "returned"
  /\ WellFormed(barsConn)
  /\ Len(barsConn) >= 3
  /\ Len(newConn) = 1
  /\ oldConn = <<>>
  /\ barsConn = TransposeToList(barsSlice)

\* ===================================================================
\* C16  Base-agnostic: FEsort commutes with an injective relabeling f of
\* the node ids: FEsort of the relabeled bars is the output for the original
\* bars with f applied to every node.  Checked for the shift from 1-based to
\* 0-based ids, the mirror image of the id range and every exchange of two
\* ids.
\* ===================================================================
ShiftDown == [ v \in AllNodes |-> v - 1 ]
Mirror == [ v \in AllNodes |-> 9 - v ]
Swap(a, b) == [ v \in AllNodes |-> IF v = a THEN b ELSE IF v = b THEN a ELSE v ]
Relabelings ==
  {ShiftDown, Mirror} \cup { Swap(a, b) : a, b \in AllNodes }

RelabelBars(f, E) == [ i \in DOMAIN E |-> <<f[E[i][1]], f[E[i][2]]>> ]
RelabelFE(f, fes) ==
  [ c \in DOMAIN fes |->
      << [ p \in DOMAIN fes[c][1] |-> f[fes[c][1][p]] ],
         [ p \in DOMAIN fes[c][2] |-> f[fes[c][2][p]] ] >> ]

BaseAgnostic ==
  (pc = "returned") =>
    \A f \in Relabelings :
      FEsortOf(RelabelBars(f, barsConn)) = RelabelFE(f, Polylines)

\* A four-bar input through node 1 that merged into one polyline, and whose
\* 0-based form sorts into the 0-based form of the output.
BaseAgnosticWitness ==
  /\ pc = "returned"
  /\ WellFormed(barsConn)
  /\ Len(barsConn) = 4
  /\ 1 \in Touched(barsConn)
  /\ Len(Polylines) = 1
  /\ 0 \in Touched(RelabelBars(ShiftDown, barsConn))
  /\ FEsortOf(RelabelBars(ShiftDown, barsConn)) = RelabelFE(ShiftDown, Polylines)

\* ===================================================================
\* C17  First-match tie-break: the element popped in a step of the inner
\* loop is joined to at most one working polyline, the first in list order
\* for which one of the tests first==head, first==tail, last==head,
\* last==tail succeeds, by the rule of the first test that succeeds in that
\* order (prepend reversed, append, prepend, append reversed); every other
\* polyline is left as it was and the joined one keeps its position; an
\* element that matches nowhere is appended.
\* ===================================================================
TestHits(e, w) ==
  { i \in DOMAIN w :
      \/ e[1] = w[i][1]
      \/ e[1] = w[i][Len(w[i])]
      \/ e[Len(e)] = w[i][1]
      \/ e[Len(e)] = w[i][Len(w[i])] }

RuleResult(e, q) ==
  IF e[1] = q[1] THEN Reverse(e) \o SubSeq(q, 2, Len(q))
  ELSE IF e[1] = q[Len(q)] THEN SubSeq(q, 1, Len(q) - 1) \o e
  ELSE IF e[Len(e)] = q[1] THEN e \o SubSeq(q, 2, Len(q))
  ELSE SubSeq(q, 1, Len(q) - 1) \o Reverse(e)

FirstMatchStep ==
  (pc = "inner") =>
    LET e == Head(oldConn)
        H == TestHits(e, newConn)
    IN  IF H = {}
          THEN newConn' = Append(newConn, e)
          ELSE /\ Len(newConn') = Len(newConn)
               /\ \A i \in DOMAIN newConn :
                    IF i \in H /\ \A j \in H : i <= j
                      THEN newConn'[i] = RuleResult(e, newConn[i])
                      ELSE newConn'[i] = newConn[i]

FirstMatch == [][FirstMatchStep]_vars

\* A pass over a branch-free input has ended with two working polylines that
\* share an end node: the element that linked them was joined to the first
\* one only.
FirstMatchWitness ==
  /\ pc = "while"
  /\ keep_searching
  /\ WellFormed(barsConn)
  /\ MaxTouch(barsConn)
  /\ Len(newConn) >= 2
  /\ Len(newConn[1]) >= 3
  /\ \E i \in DOMAIN newConn : i > 1 /\ TestHits(newConn[i], <<newConn[1]>>) # {}

\* ===================================================================
\* C18  Fixed point at return: when FEsort returns, for any non-empty
\* input, the head or tail of one returned polyline never equals the head
\* or tail of another, and the last pass joined nothing.
\* ===================================================================
Ends(fe) == { fe[1][1], Last(fe[2]) }

FixedPoint ==
  /\ Returned =>
       \A c, d \in DOMAIN Polylines :
         c # d => Ends(Polylines[c]) \cap Ends(Polylines[d]) = {}
  /\ (pc = "returned") => (Len(newConn) = passLen /\ ~keep_searching)

\* A branching input has been returned as two polylines that share a node
\* which is not an end of both.
FixedPointWitness ==
  /\ pc = "returned"
  /\ WellFormed(barsConn)
  /\ HasBranch(barsConn)
  /\ Len(Polylines) = 2
  /\ Touched(BarList(<<Polylines[1]>>)) \cap Touched(BarList(<<Polylines[2]>>)) # {}

\* ===================================================================
\* C19  Edge-count bookkeeping: at every step of FEsort the polylines in
\* the queue and in the working list together hold as many bars (nodes - 1
\* each) as the input, and the arrays returned hold that many bars.
\* ===================================================================
RECURSIVE BarCount(_)
BarCount(conn) ==
  IF conn = <<>> THEN 0 ELSE (Len(Head(conn)) - 1) + BarCount(Tail(conn))

EdgeCount ==
  /\ pc # "call" => BarCount(oldConn) + BarCount(newConn) = Len(barsConn)
  /\ Returned => Cardinality(OutPositions) = Len(barsConn)

\* In a later pass a polyline of several bars is waiting in the queue while
\* the working list holds another one.
EdgeCountWitness ==
  /\ pc = "inner"
  /\ Len(newConn[1]) >= 3
  /\ \E i \in DOMAIN oldConn : Len(oldConn[i]) >= 3
  /\ BarCount(oldConn) + BarCount(newConn) = Len(barsConn)

\* ===================================================================
\* The reference procedure of the specification (section 4.1): bars are
\* absorbed one at a time into the first working polyline whose head or
\* tail matches; the remaining queue is scanned again as long as a pass
\* absorbed a bar; when a pass absorbs nothing the first remaining bar opens
\* a new polyline at the end of the working list.
\* ===================================================================
\* Rule 2b for one polyline q and one bar (a,b).
RefAbsorb(q, e) ==
  IF e[1] = q[1] THEN <<e[2]>> \o q
  ELSE IF e[1] = q[Len(q)] THEN Append(q, e[2])
  ELSE IF e[2] = q[1] THEN <<e[1]>> \o q
  ELSE Append(q, e[1])

RefHits(work, e) ==
  { i \in DOMAIN work :
      {e[1], e[2]} \cap {work[i][1], work[i][Len(work[i])]} # {} }

\* One pass over the queue: bars that match are absorbed, the others are
\* kept in order for the next pass.
RECURSIVE RefPass(_, _, _, _)
RefPass(queue, work, rest, changed) ==
  IF queue = <<>>
    THEN [work |-> work, rest |-> rest, changed |-> changed]
    ELSE LET e == Head(queue)
             H == RefHits(work, e)
         IN  IF H = {}
               THEN RefPass(Tail(queue), work, Append(rest, e), changed)
               ELSE LET k == CHOOSE i \in H : \A j \in H : i <= j
                    IN  RefPass(Tail(queue),
                                [work EXCEPT ![k] = RefAbsorb(work[k], e)],
                                rest, TRUE)

RECURSIVE RefLoop(_, _)
RefLoop(work, queue) ==
  IF queue = <<>>
    THEN work
    ELSE LET r == RefPass(queue, work, <<>>, FALSE) IN
         IF r.changed
           THEN RefLoop(r.work, r.rest)
           ELSE RefLoop(Append(r.work, Head(r.rest)), Tail(r.rest))

\* The polylines of the reference procedure for a non-empty bar list.
RefSort(E) == RefLoop(<<E[1]>>, Tail(E))

RECURSIVE Flatten(_)
Flatten(bars) ==
  IF bars = <<>> THEN <<>> ELSE Head(bars) \o Flatten(Tail(bars))

\* x in list
In(x, list) == \E i \in DOMAIN list : list[i] = x

\* list.pop(k) with k counted from 0: the list without that entry
PopAt(list, k) ==
  [ i \in 1..(Len(list) - 1) |-> IF i <= k THEN list[i] ELSE list[i + 1] ]

\* elemCounter when the for loop stops: the 0-based position of the first
\* element that holds the node, len(list) when no element does.
ElemCounter(list, node) ==
  IF \E i \in DOMAIN list : In(node, list[i])
    THEN (CHOOSE i \in DOMAIN list :
            /\ In(node, list[i])
            /\ \A j \in 1..(i - 1) : ~In(node, list[j])) - 1
    ELSE Len(list)

\* The inputs: any list of at most MaxBars bars over Nodes, the empty list
\* included, and the well-formed lists of at most MaxValidBars bars.
DumbCalled(bars) ==
  /\ dumb = [ DumbIdle EXCEPT !.barsConnIn = bars, !.pc = "call" ]
  /\ FEsortIdle
  /\ curveObj = CurveIdle
  /\ self = ManagerIdle
  /\ call = NoCall
  /\ hist = NoHist

DumbInit ==
  \/ \E n \in 0..MaxBars :
       \E bars \in [1..n -> Nodes \X Nodes] : DumbCalled(bars)
  \/ \E n \in 1..MaxValidBars :
       \E bars \in [1..n -> ValidNodes \X ValidNodes] :
         WellFormed(bars) /\ DumbCalled(bars)

notDumb == <<fesortVars, curveObj, self, call, hist>>

\* lines 510-513
DumbFlatten ==
  /\ dumb.pc = "call"
  /\ dumb' = [ dumb EXCEPT !.flatArray = Flatten(dumb.barsConnIn),
                           !.end_not_found = TRUE,
                           !.pc = "findEnd" ]
  /\ UNCHANGED notDumb

\* one turn of the loop of lines 515-525
DumbCheckNode ==
  /\ dumb.pc = "findEnd"
  /\ dumb.end_not_found /\ Len(dumb.flatArray) > 0
  /\ LET node_to_check == Head(dumb.flatArray)
         rest == Tail(dumb.flatArray)
     IN  dumb' = IF ~In(node_to_check, rest)
                   THEN [ dumb EXCEPT !.flatArray = rest,
                                      !.end_node = Some(node_to_check),
                                      !.end_not_found = FALSE ]
                   ELSE [ dumb EXCEPT !.flatArray = rest ]
  /\ UNCHANGED notDumb

\* lines 527-539: the loop is over; barsConnIn[0,0] on a list raises
\* TypeError; the start node is kept for reference.
DumbStartBuild ==
  /\ dumb.pc = "findEnd"
  /\ ~(dumb.end_not_found /\ Len(dumb.flatArray) > 0)
  /\ dumb' = IF dumb.end_not_found
               THEN [ dumb EXCEPT !.exc = "TypeError", !.pc = "raised" ]
               ELSE [ dumb EXCEPT !.start_node = dumb.end_node,
                                  !.newConn = <<>>,
                                  !.barsConn = dumb.barsConnIn,
                                  !.noFail = TRUE,
                                  !.pc = "build" ]
  /\ UNCHANGED notDumb

\* one turn of the loop of lines 542-582
DumbLink ==
  /\ dumb.pc = "build"
  /\ Len(dumb.barsConn) > 0 /\ dumb.noFail
  /\ LET end == dumb.end_node.val
         elemCounter == ElemCounter(dumb.barsConn, end)
     IN  IF elemCounter < Len(dumb.barsConn)
           THEN LET element == dumb.barsConn[elemCounter + 1]
                    second == IF end = element[1] THEN element[2]
                              ELSE element[1]
                IN  dumb' = [ dumb EXCEPT
                                !.end_node = Some(second),
                                !.newConn = Append(dumb.newConn,
                                                   <<end, second>>),
                                !.barsConn = PopAt(dumb.barsConn,
                                                   elemCounter),
                                !.noFail = TRUE ]
           ELSE dumb' = [ dumb EXCEPT !.noFail = FALSE ]
  /\ UNCHANGED notDumb

\* lines 584-591
DumbReturn ==
  /\ dumb.pc = "build"
  /\ ~(Len(dumb.barsConn) > 0 /\ dumb.noFail)
  /\ dumb' = [ dumb EXCEPT
                 !.ret = IF dumb.noFail THEN Some(dumb.newConn) ELSE None,
                 !.pc = "returned" ]
  /\ UNCHANGED notDumb

DumbNext ==
  DumbFlatten \/ DumbCheckNode \/ DumbStartBuild \/ DumbLink \/ DumbReturn

DumbSpec == DumbInit /\ [][DumbNext]_vars

\* C21: FEsort_dumb on a single open curve.  Whatever the order and the
\* orientation of the bars of one simple open curve, the start node is a node
\* that occurs once in the whole input, and the call returns a list, not
\* None, that holds every input bar.
DumbOpenCurve ==
  (dumb.pc \in {"returned", "raised"} /\ IsOpenPath(dumb.barsConnIn)) =>
    /\ dumb.pc = "returned"
    /\ BarEnds(dumb.barsConnIn, dumb.start_node.val) = 1
    /\ dumb.ret # None
    /\ { Norm(dumb.ret.val[i]) : i \in DOMAIN dumb.ret.val }
         = { Norm(dumb.barsConnIn[i]) : i \in DOMAIN dumb.barsConnIn }

\* second node of bar i equals first node of bar i+1
Chained(conn) == \A i \in 1..(Len(conn) - 1) : conn[i][2] = conn[i + 1][1]

\* C22: FEsort_dumb failure detection.  An input with a node connected to
\* three or more bars, or with bars that form disconnected curves, makes the
\* call return None; a returned list has as many bars as the input and its
\* consecutive bars are chained.  Stated for the well-formed inputs (no
\* self-loop, no duplicate bar).
DumbFailureDetection ==
  (dumb.pc = "returned" /\ WellFormed(dumb.barsConnIn)) =>
    /\ (HasBranch(dumb.barsConnIn)
          \/ Cardinality(Components(dumb.barsConnIn)) > 1) => dumb.ret = None
    /\ dumb.ret # None =>
         /\ Len(dumb.ret.val) = Len(dumb.barsConnIn)
         /\ Chained(dumb.ret.val)

\* The two halves of C22 the code does keep: disconnected input returns
\* None, and a returned list is complete and chained.
DumbListIsChain ==
  (dumb.pc = "returned") =>
    /\ Cardinality(Components(dumb.barsConnIn)) > 1 => dumb.ret = None
    /\ dumb.ret # None =>
         /\ Len(dumb.ret.val) = Len(dumb.barsConnIn)
         /\ Chained(dumb.ret.val)

\* ===================================================================
\* Curve.flip (tsurf_geometry.py) as march_intCurve_surfaceMesh uses it
\* (managerClass.py): flip, march the second mesh, flip back.  barsConn is
\* the 2 x N array of extract_points: bar i is column i.  One behaviour of
\* FlipSpec is the two calls on one Curve object.
\* ===================================================================

\* Curve(coor, barsConn) with any 2 x n array of node ids, n = 0 included.
FlipInit ==
  \E n \in 0..MaxBars :
    \E r1 \in [1..n -> Nodes], r2 \in [1..n -> Nodes] :
      /\ curveObj = [ barsConn |-> <<r1, r2>>, given |-> <<r1, r2>>,
                      flips |-> 0, ii |-> 0, pc |-> "start" ]
      /\ FEsortIdle
      /\ dumb = DumbIdle
      /\ self = ManagerIdle
      /\ call = NoCall
      /\ hist = NoHist

notCurve == <<fesortVars, dumb, self, call, hist>>

\* curve.flip() of lines 813 and 824 of managerClass.py
CallFlip ==
  /\ curveObj.pc \in {"start", "flipped"}
  /\ curveObj' = [ curveObj EXCEPT !.pc = "elements" ]
  /\ UNCHANGED notCurve

\* line 241: self.barsConn = self.barsConn[::-1]
FlipElements ==
  /\ curveObj.pc = "elements"
  /\ curveObj' = [ curveObj EXCEPT !.barsConn = Reverse(curveObj.barsConn),
                                   !.ii = 0,
                                   !.pc = "nodes" ]
  /\ UNCHANGED notCurve

\* The loop body with the assignment left out.
RowKept(conn, ii) == conn

\* line 244 for one ii (counted from 0)
RowFlipped(conn, ii) == [ conn EXCEPT ![ii + 1] = Reverse(conn[ii + 1]) ]

\* one turn of the loop of lines 243-244
FlipNodes ==
  /\ curveObj.pc = "nodes"
  /\ curveObj.ii < Len(curveObj.barsConn)
  /\ curveObj' = [ curveObj EXCEPT
                     !.barsConn = RowFlipped(curveObj.barsConn, curveObj.ii),
                     !.ii = curveObj.ii + 1 ]
  /\ UNCHANGED notCurve

\* the loop is over and flip returns to its caller
FlipReturn ==
  /\ curveObj.pc = "nodes"
  /\ curveObj.ii >= Len(curveObj.barsConn)
  /\ curveObj' = [ curveObj EXCEPT
                     !.flips = curveObj.flips + 1,
                     !.pc = IF curveObj.flips = 0 THEN "flipped"
                            ELSE "restored" ]
  /\ UNCHANGED notCurve

FlipNext == CallFlip \/ FlipElements \/ FlipNodes \/ FlipReturn

FlipSpec == FlipInit /\ [][FlipNext]_vars

\* bar i of a 2 x N connectivity, and the number of bars
BarOf(conn, i) == <<conn[1][i], conn[2][i]>>
NumBars(conn) == Len(conn[1])

\* end node of bar i equals start node of bar i+1
Traversable(conn) ==
  \A i \in 1..(NumBars(conn) - 1) : conn[2][i] = conn[1][i + 1]

\* C23: Curve.flip reverses the traversal.  Applied to a connectivity that
\* is traversable head-to-tail it yields the same bars in reverse element
\* order, the two nodes of every bar swapped, which is traversable again;
\* two flips restore the original connectivity.
FlipReverses ==
  /\ (curveObj.pc = "flipped" /\ Traversable(curveObj.given)) =>
       /\ NumBars(curveObj.barsConn) = NumBars(curveObj.given)
       /\ \A i \in 1..NumBars(curveObj.given) :
            BarOf(curveObj.barsConn, i)
              = << curveObj.given[2][NumBars(curveObj.given) + 1 - i],
                   curveObj.given[1][NumBars(curveObj.given) + 1 - i] >>
       /\ Traversable(curveObj.barsConn)
  /\ (curveObj.pc = "restored") => curveObj.barsConn = curveObj.given

\* Two flips of an open curve of three bars have come back to the original,
\* which differs from its reverse.
FlipReversesWitness ==
  /\ curveObj.pc = "restored"
  /\ NumBars(curveObj.given) = 3
  /\ Traversable(curveObj.given)
  /\ curveObj.given[1][1] # curveObj.given[2][3]
  /\ curveObj.barsConn = curveObj.given

\* ===================================================================
\* The Manager class (managerClass.py).  One behaviour of ManagerSpec is
\* the life of one Manager object: the calls a script makes on it, and the
\* calls its base function makes while run_baseFunction or update runs it.
\* The geometry, curve and mesh objects come from the pysurf package; the
\* model keeps of them what the Manager reads: their names, the parents
\* and child meshes noted in a curve's extra_data.
\* ===================================================================
GeomNames == {"g1", "g2"}
CurveNames == {"c1", "c2"}
PtSetNames == {"p1", "p2"}

\* Calls that append a task are made while fewer than MaxTasks are recorded.
MaxTasks == 2
\* A script makes at most MaxCalls calls on the Manager, those of its base
\* function included; call.nr counts them.
MaxCalls == 6
\* update is called at most MaxUpdates times.
MaxUpdates == 2

\* A dictionary whose values carry their key as name (geoms, intCurves), in
\* insertion order; points holds records [name, coor].
Keys(d) == { d[i].name : i \in DOMAIN d }
Lookup(d, n) == d[CHOOSE i \in DOMAIN d : d[i].name = n]
\* d[o.name] = o
Assigned(d, o) ==
  IF o.name \in Keys(d)
    THEN [ i \in DOMAIN d |-> IF d[i].name = o.name THEN o ELSE d[i] ]
    ELSE Append(d, o)
\* del d[n]
RECURSIVE Deleted(_, _)
Deleted(d, n) ==
  IF d = <<>> THEN <<>>
  ELSE IF Head(d).name = n THEN Tail(d)
  ELSE <<Head(d)>> \o Deleted(Tail(d), n)

\* Manager() of lines 20-47; the base function is not assigned yet and the
\* surfaces are in their first state.
ManagerNew ==
  [ geoms |-> <<>>, intCurves |-> <<>>, meshGenerators |-> <<>>,
    tasks |-> <<>>, points |-> <<>>, updated |-> <<>>,
    baseFunction |-> FALSE, surface |-> 0, frame |-> "user",
    ptSetName |-> None ]

ManagerInit ==
  /\ self = ManagerNew
  /\ call = NoCall
  /\ hist = NoHist
  /\ FEsortIdle
  /\ dumb = DumbIdle
  /\ curveObj = CurveIdle

notManager == <<fesortVars, dumb, curveObj>>

\* What a call leaves in `call`.
Called(method, arg, raised) ==
  [ method |-> method, arg |-> arg, raised |-> raised, ad |-> "",
    ran |-> <<>>, seeded |-> FALSE, dropped |-> <<>>,
    nr |-> call.nr + 1 ]

\* An exception raised inside the base function leaves run_baseFunction and
\* update with it.
Unwound(s) == [ s EXCEPT !.frame = "user", !.ptSetName = None ]

\* The script is at top level.
AtTop == self.frame = "user" /\ call.nr < MaxCalls

\* lines 51-61
add_geometry ==
  /\ AtTop
  /\ \E n \in GeomNames :
       LET geom == [ name |-> n ] IN
       IF geom.name \in Keys(self.geoms)
         THEN /\ call' = Called("add_geometry", <<geom>>, "NameError")
              /\ UNCHANGED self
         ELSE /\ call' = Called("add_geometry", <<geom>>, "")
              /\ self' = [ self EXCEPT !.geoms = Assigned(self.geoms, geom) ]
  /\ UNCHANGED <<hist, notManager>>

\* lines 63-69
remove_geometry ==
  /\ AtTop
  /\ \E geomName \in GeomNames :
       IF geomName \in Keys(self.geoms)
         THEN /\ call' = Called("remove_geometry", <<geomName>>, "")
              /\ self' = [ self EXCEPT
                             !.geoms = Deleted(self.geoms, geomName) ]
              /\ hist' = [ hist EXCEPT !.removed = TRUE ]
         ELSE /\ call' = Called("remove_geometry", <<geomName>>, "KeyError")
              /\ UNCHANGED <<self, hist>>
  /\ UNCHANGED notManager

\* A curve object as a script may build it: named, with or without parent
\* geometries, without child meshes.
UserCurves ==
  [ name : CurveNames,
    parentGeoms : {None, Some(<<"g1", "g2">>)},
    childMeshes : {None} ]

\* lines 73-84
add_curve ==
  /\ AtTop
  /\ \E curve \in UserCurves :
       IF curve.name \in Keys(self.intCurves)
         THEN /\ call' = Called("add_curve", <<curve>>, "NameError")
              /\ UNCHANGED self
         ELSE /\ call' = Called("add_curve", <<curve>>, "")
              /\ self' = [ self EXCEPT
                             !.intCurves = Assigned(self.intCurves, curve) ]
  /\ UNCHANGED <<hist, notManager>>

\* lines 86-92
remove_curve ==
  /\ AtTop
  /\ \E curveName \in CurveNames :
       IF curveName \in Keys(self.intCurves)
         THEN /\ call' = Called("remove_curve", <<curveName>>, "")
              /\ self' = [ self EXCEPT
                             !.intCurves = Deleted(self.intCurves, curveName) ]
              /\ hist' = [ hist EXCEPT !.removed = TRUE ]
         ELSE /\ call' = Called("remove_curve", <<curveName>>, "KeyError")
              /\ UNCHANGED <<self, hist>>
  /\ UNCHANGED notManager

\* Mesh generator names: meshName + '_0' and meshName + '_1' are the pairs
\* <<meshName, 0>> and <<meshName, 1>>; 'mesh_' + curveName is MeshOf.
MeshOf(curveName) ==
  CASE curveName = "c1" -> "mesh_c1"
    [] curveName = "c2" -> "mesh_c2"

\* The mesh generator a script builds itself: named, marching from a curve.
UserMeshGens == [ name : {<<"m", 0>>}, curve : {"c1"} ]

\* add_meshGenerator forgetting its assignment.
StoredNowhere(d, o) == d

\* d[o.name] = o on a plain dictionary
Stored(d, o) ==
  [ n \in (DOMAIN d) \cup {o.name} |-> IF n = o.name THEN o ELSE d[n] ]

\* lines 96-102
add_meshGenerator ==
  /\ AtTop
  /\ \E meshGen \in UserMeshGens :
       /\ call' = Called("add_meshGenerator", <<meshGen>>, "")
       /\ self' = [ self EXCEPT
                      !.meshGenerators = Stored(self.meshGenerators, meshGen) ]
  /\ UNCHANGED <<hist, notManager>>

\* lines 104-110: the statement names meshName, which is neither a parameter
\* nor a global of the module, so evaluating it raises NameError.
remove_meshGenerator ==
  /\ AtTop
  /\ \E meshGenName \in {<<"m", 0>>} :
       call' = Called("remove_meshGenerator", <<meshGenName>>, "NameError")
  /\ UNCHANGED <<self, hist, notManager>>

\* The statements of clear_all with one of them forgotten.
ClearedButTasks(s) ==
  [ s EXCEPT !.intCurves = <<>>, !.meshGenerators = <<>> ]

\* lines 140-142
Cleared(s) ==
  [ s EXCEPT !.intCurves = <<>>, !.meshGenerators = <<>>, !.tasks = <<>> ]

\* What clear_all finds to drop: the numbers of curves, mesh generators and
\* tasks.
Dropping(s) ==
  << Len(s.intCurves), Cardinality(DOMAIN s.meshGenerators), Len(s.tasks) >>

\* a call that runs clear_all
Clearing(method, arg, raised) ==
  [ Called(method, arg, raised) EXCEPT !.dropped = Dropping(self) ]

\* lines 132-142
clear_all ==
  /\ AtTop
  /\ call' = Clearing("clear_all", <<>>, "")
  /\ self' = Cleared(self)
  /\ hist' = [ hist EXCEPT !.removed = FALSE ]
  /\ UNCHANGED notManager

\* lines 147-170
assign_baseFunction ==
  /\ AtTop
  /\ ~self.baseFunction
  /\ call' = Called("assign_baseFunction", <<>>, "")
  /\ self' = [ self EXCEPT !.baseFunction = TRUE ]
  /\ UNCHANGED <<hist, notManager>>

\* lines 172-186 (also reinitialize, lines 218-238): clear_all, then the
\* base function starts; without an assigned function the attribute lookup
\* raises AttributeError.
run_baseFunction ==
  /\ AtTop
  /\ IF self.baseFunction
       THEN /\ self' = [ Cleared(self) EXCEPT !.frame = "base" ]
            /\ call' = Clearing("run_baseFunction", <<>>, "")
       ELSE /\ self' = Cleared(self)
            /\ call' = Clearing("run_baseFunction", <<>>, "AttributeError")
  /\ hist' = [ hist EXCEPT !.removed = FALSE ]
  /\ UNCHANGED notManager

\* the base function returns to run_baseFunction, which returns
base_return ==
  /\ self.frame = "base"
  /\ self' = [ self EXCEPT !.frame = "user" ]
  /\ call' = [ Called("run_baseFunction", <<>>, "") EXCEPT
                 !.nr = call.nr ]
  /\ UNCHANGED <<hist, notManager>>

\* ------------------------------------------------ the operation methods
\* The script, or the base function the Manager runs, is about to make its
\* next call; calls that record a task are made below MaxTasks tasks.
InScript ==
  self.frame \in {"user", "base", "update"} /\ call.nr < MaxCalls
Recording == InScript /\ Len(self.tasks) < MaxTasks

\* The Manager after a call that ended with the exception `raised` ("" for
\* a normal return).
After(s, raised) == IF raised = "" THEN s ELSE Unwound(s)

RECURSIVE AddCurves(_, _)
\* add_curve without its test of line 81: a curve of a registered name
\* takes the place of the old one.
AddCurvesUnchecked(d, curves) ==
  IF curves = <<>> THEN [ d |-> d, raised |-> "" ]
  ELSE LET rest == AddCurves(Assigned(d, Head(curves)), Tail(curves))
       IN  [ d |-> rest.d, raised |-> "" ]

\* add_curve for each curve of a list in turn (lines 456-468, 649-655): the
\* dictionary reached and the exception that stopped the loop, if any.
AddCurves(d, curves) ==
  IF curves = <<>> THEN [ d |-> d, raised |-> "" ]
  ELSE IF Head(curves).name \in Keys(d) THEN [ d |-> d, raised |-> "NameError" ]
  ELSE AddCurves(Assigned(d, Head(curves)), Tail(curves))

\* the pairs (ii, jj) of lines 445-446 in loop order
RECURSIVE Pairs(_, _, _)
Pairs(ii, jj, n) ==
  IF ii > n THEN <<>>
  ELSE IF jj > n THEN Pairs(ii + 1, ii + 2, n)
  ELSE <<<<ii, jj>>>> \o Pairs(ii, jj + 1, n)

\* the curves of lines 453-465: for every pair, in order, the curves the
\* geometry engine found for it, with the names of the pair as parents
RECURSIVE NewIntersections(_, _, _)
NewIntersections(geomObjList, pairs, found) ==
  IF pairs = <<>> THEN <<>>
  ELSE [ k \in DOMAIN found[1] |->
           [ name |-> found[1][k],
             parentGeoms |-> Some(<< geomObjList[pairs[1][1]].name,
                                     geomObjList[pairs[1][2]].name >>),
             childMeshes |-> None ] ]
       \o NewIntersections(geomObjList, Tail(pairs), Tail(found))

\* the names of a list of objects
NamesOf(objs) == [ k \in DOMAIN objs |-> objs[k].name ]

\* lists of at most two curve names, as the geometry engine may return them
FoundNames == UNION { [1..k -> CurveNames] : k \in 0..2 }

\* lines 402-477; quit() is SystemExit.  distTol is kept as the exponent.
intersect ==
  /\ Recording
  /\ \E geomList \in {None} \cup { Some(S) : S \in SUBSET GeomNames } :
       LET wanted == IF geomList = None THEN Keys(self.geoms)
                     ELSE geomList.val
           geomObjList == SelectSeq(self.geoms, LAMBDA g : g.name \in wanted)
           pairs == Pairs(1, 2, Len(geomObjList))
       IN  IF Len(geomObjList) < 2
             THEN /\ call' = Called("intersect", <<geomList>>, "SystemExit")
                  /\ self' = After(self, "SystemExit")
             ELSE \E found \in [DOMAIN pairs -> FoundNames] :
                    LET curves == NewIntersections(geomObjList, pairs, found)
                        added == AddCurves(self.intCurves, curves)
                    IN  /\ call' = Called("intersect", <<geomList>>,
                                          added.raised)
                        /\ self' = After(
                             [ self EXCEPT
                                 !.intCurves = added.d,
                                 !.tasks =
                                   IF added.raised = ""
                                     THEN Append(@, <<"intersect", -7,
                                                      NamesOf(curves)>>)
                                     ELSE @ ],
                             added.raised)
  /\ UNCHANGED <<hist, notManager>>

\* extra_data['parentGeoms'][:] of the parent curve, when the new curve is to
\* inherit it: slicing None raises TypeError.
Inherits(parent, inheritParentGeoms) ==
  inheritParentGeoms /\ parent.parentGeoms = None

\* lines 522-562, called with the default inheritParentGeoms
remesh_intCurve ==
  /\ Recording
  /\ \E curveName \in CurveNames, inheritParentGeoms \in {TRUE} :
       IF curveName \in Keys(self.intCurves)
         THEN \E newCurveName \in CurveNames :
           LET parent == Lookup(self.intCurves, curveName)
               newCurve == [ name |-> newCurveName,
                             parentGeoms |-> IF inheritParentGeoms
                                               THEN parent.parentGeoms
                                               ELSE Some(<<>>),
                             childMeshes |-> None ]
               raised == IF Inherits(parent, inheritParentGeoms)
                           THEN "TypeError"
                         ELSE IF newCurveName \in Keys(self.intCurves)
                           THEN "NameError"
                         ELSE ""
           IN  /\ call' = Called("remesh_intCurve", <<curveName>>, raised)
               /\ self' = After(
                    IF raised = ""
                      THEN [ self EXCEPT
                               !.intCurves = Assigned(@, newCurve),
                               !.tasks = Append(@, <<"remesh_intCurve",
                                                     newCurveName, curveName,
                                                     "optionsDict">>) ]
                      ELSE self,
                    raised)
         ELSE /\ call' = Called("remesh_intCurve", <<curveName>>, "NameError")
              /\ self' = After(self, "NameError")
  /\ UNCHANGED <<hist, notManager>>

\* What curve.split returns: a dictionary of child curves, each stored under
\* its own name (the names are what split_intCurve hands back to the script
\* for later calls); listed in the order of iteration.
SplitResults ==
  { names \in FoundNames : \A i, j \in DOMAIN names : i # j => names[i] # names[j] }

\* lines 631-664, called with the default inheritParentGeoms
split_intCurve ==
  /\ Recording
  /\ \E curveName \in CurveNames, inheritParentGeoms \in {TRUE} :
       IF curveName \in Keys(self.intCurves)
         THEN \E childrenNames \in SplitResults :
           LET parent == Lookup(self.intCurves, curveName)
               children == [ k \in DOMAIN childrenNames |->
                               [ name |-> childrenNames[k],
                                 parentGeoms |-> IF inheritParentGeoms
                                                   THEN parent.parentGeoms
                                                   ELSE None,
                                 childMeshes |-> None ] ]
               added == IF childrenNames # <<>>
                             /\ Inherits(parent, inheritParentGeoms)
                          THEN [ d |-> self.intCurves, raised |-> "TypeError" ]
                          ELSE AddCurves(self.intCurves, children)
           IN  /\ call' = Called("split_intCurve", <<curveName>>, added.raised)
               /\ self' = After(
                    [ self EXCEPT
                        !.intCurves = added.d,
                        !.tasks = IF added.raised = ""
                                    THEN Append(@, <<"split_intCurve",
                                                     curveName, childrenNames>>)
                                    ELSE @ ],
                    added.raised)
         ELSE /\ call' = Called("split_intCurve", <<curveName>>, "NameError")
              /\ self' = After(self, "NameError")
  /\ UNCHANGED <<hist, notManager>>

\* mainCurve.merge(self.intCurves, mergedCurveName, curveNames[1:]) looks the
\* named curves up in the dictionary it is given; a name that is not there
\* makes it raise.
MergeRaises(d, curveNames) ==
  \E k \in DOMAIN curveNames : curveNames[k] \notin Keys(d)

\* The curve mainCurve.merge returns carries the name it is given; it has
\* no parents and no meshes yet.
MergedCurve(mergedCurveName) ==
  [ name |-> mergedCurveName, parentGeoms |-> None, childMeshes |-> None ]

\* lines 709-737, called with the default inheritParentGeoms
merge_intCurves ==
  /\ Recording
  /\ \E curveNames \in FoundNames, mergedCurveName \in CurveNames,
        inheritParentGeoms \in {TRUE} :
       LET raised ==
             IF curveNames = <<>> THEN "IndexError"
             ELSE IF curveNames[1] \notin Keys(self.intCurves) THEN "KeyError"
             ELSE IF MergeRaises(self.intCurves, Tail(curveNames))
               THEN "KeyError"
             ELSE IF Inherits(Lookup(self.intCurves, curveNames[1]),
                              inheritParentGeoms) THEN "TypeError"
             ELSE IF mergedCurveName \in Keys(self.intCurves) THEN "NameError"
             ELSE ""
       IN  /\ call' = Called("merge_intCurves",
                             <<curveNames, mergedCurveName>>, raised)
           /\ self' = After(
                IF raised = ""
                  THEN [ self EXCEPT
                           !.intCurves = Assigned(@,
                              [ MergedCurve(mergedCurveName) EXCEPT
                                  !.parentGeoms =
                                    IF inheritParentGeoms
                                      THEN Lookup(self.intCurves,
                                                  curveNames[1]).parentGeoms
                                      ELSE @ ]),
                           !.tasks = Append(@, <<"merge_intCurves",
                                                 curveNames,
                                                 mergedCurveName>>) ]
                  ELSE self,
                raised)
  /\ UNCHANGED <<hist, notManager>>

\* pysurf.hypsurf.HypSurfMesh(curve, geom, options, name): the generator
\* carries the name it is given.
HypSurfMesh(curveName, name) == [ name |-> name, curve |-> curveName ]

\* lines 776-840, called with the default meshName; the two flips of lines 813 and 824 cancel (FlipReverses).
march_intCurve_surfaceMesh ==
  /\ Recording
  /\ \E curveName \in CurveNames, meshName \in {None} :
       LET base == IF meshName = None THEN MeshOf(curveName)
                   ELSE meshName.val
           known == curveName \in Keys(self.intCurves)
           curve == Lookup(self.intCurves, curveName)
           parentGeoms == curve.parentGeoms
           raised ==
             IF ~known THEN "KeyError"
             ELSE IF parentGeoms = None THEN "NameError"
             ELSE IF parentGeoms.val = <<>> THEN "IndexError"
             ELSE IF parentGeoms.val[1] \notin Keys(self.geoms)
               THEN "KeyError"
             ELSE IF parentGeoms.val[2] \notin Keys(self.geoms)
               THEN "KeyError"
             ELSE ""
           meshGen0 == HypSurfMesh(curveName, <<base, 0>>)
           meshGen1 == HypSurfMesh(curveName, <<base, 1>>)
       IN  /\ call' = Called("march_intCurve_surfaceMesh", <<curveName>>,
                             raised)
           /\ self' = After(
                IF raised = ""
                  THEN [ self EXCEPT
                           !.meshGenerators =
                              Stored(Stored(@, meshGen0), meshGen1),
                           !.intCurves = Assigned(@,
                              [ curve EXCEPT
                                  !.childMeshes =
                                     Some(<<meshGen0.name, meshGen1.name>>) ]),
                           !.tasks = Append(@, <<"march_intCurve_surfaceMesh",
                                                 curveName>>) ]
                  ELSE self,
                raised)
  /\ UNCHANGED <<hist, notManager>>

\* ------------------------------------------------------ the AD methods
\* The if statements of lines 271-314 (mode "d") and 349-392 (mode "b"):
\* the routine run for a task name.
Routine(mode, taskName) ==
  CASE taskName = "intersect" ->
         IF mode = "d" THEN "_intersect_d" ELSE "_intersect_b"
    [] taskName = "remesh_intCurve" ->
         IF mode = "d" THEN "_remesh_intCurve_d" ELSE "_remesh_intCurve_b"
    [] taskName = "split_intCurve" ->
         IF mode = "d" THEN "_split_intCurve_d" ELSE "_split_intCurve_b"
    [] taskName = "merge_intCurves" ->
         IF mode = "d" THEN "_merge_intCurves_d" ELSE "_merge_intCurves_b"
    [] taskName = "march_intCurve_surfaceMesh" ->
         IF mode = "d" THEN "_march_intCurve_surfaceMesh_d"
         ELSE "_march_intCurve_surfaceMesh_b"

\* the first exception of a list of outcomes, "" if there is none
RECURSIVE FirstRaised(_)
FirstRaised(outcomes) ==
  IF outcomes = <<>> THEN ""
  ELSE IF Head(outcomes) # "" THEN Head(outcomes)
  ELSE FirstRaised(Tail(outcomes))

\* self.intCurves[curveName] and the two parents of lines 490-494, 510-514
ParentsRaise(s, curveName) ==
  IF curveName \notin Keys(s.intCurves) THEN "KeyError"
  ELSE LET parentGeoms == Lookup(s.intCurves, curveName).parentGeoms IN
       IF parentGeoms = None THEN "TypeError"
       ELSE IF parentGeoms.val = <<>> THEN "IndexError"
       ELSE IF parentGeoms.val[1] \notin Keys(s.geoms) THEN "KeyError"
       ELSE IF parentGeoms.val[2] \notin Keys(s.geoms) THEN "KeyError"
       ELSE ""

\* self.intCurves[curveName]
CurveRaises(s, curveName) ==
  IF curveName \in Keys(s.intCurves) THEN "" ELSE "KeyError"

\* The exception a routine raises on the Manager s, "" if it returns: the
\* look-ups of lines 479-517, 564-626, 666-704, 739-771 and 842-878.
RoutineRaises(s, task) ==
  CASE task[1] = "intersect" ->
         FirstRaised([ k \in DOMAIN task[3] |-> ParentsRaise(s, task[3][k]) ])
    [] task[1] = "remesh_intCurve" ->
         IF task[3] \in Keys(s.intCurves) /\ task[2] \in Keys(s.intCurves)
           THEN "" ELSE "NameError"
    [] task[1] = "split_intCurve" ->
         IF task[2] \notin Keys(s.intCurves) THEN "NameError"
         ELSE FirstRaised([ k \in DOMAIN task[3] |->
                              CurveRaises(s, task[3][k]) ])
    [] task[1] = "merge_intCurves" ->
         FirstRaised(<<CurveRaises(s, task[3])>>
                     \o [ k \in DOMAIN task[2] |->
                            CurveRaises(s, task[2][k]) ])
    [] task[1] = "march_intCurve_surfaceMesh" ->
         IF task[2] \notin Keys(s.intCurves) THEN "KeyError"
         ELSE LET childMeshes == Lookup(s.intCurves, task[2]).childMeshes IN
              IF childMeshes = None THEN "TypeError"
              ELSE IF childMeshes.val[1] \notin DOMAIN s.meshGenerators
                THEN "KeyError"
              ELSE IF childMeshes.val[2] \notin DOMAIN s.meshGenerators
                THEN "KeyError"
              ELSE ""

\* range(numTasks)
Forward(numTasks) == [ k \in 1..numTasks |-> k - 1 ]

\* The loop of lines 335-336 without reversed().
BackwardUnreversed(numTasks) == Forward(numTasks)

\* reversed(range(numTasks))
Backward(numTasks) == Reverse(Forward(numTasks))

\* The loop of lines 257-314 or 335-392 over the task ids in the given
\* order: the routines it ran, with their task id and arguments, and the
\* exception that ended it.
RECURSIVE Replay(_, _, _)
Replay(s, mode, order) ==
  IF order = <<>> THEN [ ran |-> <<>>, raised |-> "" ]
  ELSE LET taskID == Head(order)
           task == s.tasks[taskID + 1]
           entry == [ taskID |-> taskID,
                      routine |-> Routine(mode, task[1]),
                      taskArg |-> Tail(task) ]
           raised == RoutineRaises(s, task)
       IN  IF raised # "" THEN [ ran |-> <<entry>>, raised |-> raised ]
           ELSE LET rest == Replay(s, mode, Tail(order)) IN
                [ ran |-> <<entry>> \o rest.ran, raised |-> rest.raised ]

\* lines 243-319
forwardAD ==
  /\ AtTop
  /\ LET pass == Replay(self, "d", Forward(Len(self.tasks))) IN
     call' = [ method |-> "forwardAD", arg |-> <<>>, raised |-> pass.raised,
               ad |-> "forwardAD", ran |-> pass.ran, seeded |-> FALSE,
               dropped |-> <<>>, nr |-> call.nr + 1 ]
  /\ UNCHANGED <<self, hist, notManager>>

\* lines 321-397
reverseAD ==
  /\ AtTop
  /\ LET pass == Replay(self, "b", Backward(Len(self.tasks))) IN
     call' = [ method |-> "reverseAD", arg |-> <<>>, raised |-> pass.raised,
               ad |-> "reverseAD", ran |-> pass.ran, seeded |-> FALSE,
               dropped |-> <<>>, nr |-> call.nr + 1 ]
  /\ UNCHANGED <<self, hist, notManager>>

\* ------------------------------------------------- the MACH interface
\* Coordinates are kept as the state of the surfaces they were taken from:
\* self.surface counts the updates of the geometry manipulators.

\* self.updated[ptSetName] = flag
Flagged(updated, ptSetName, flag) ==
  [ n \in (DOMAIN updated) \cup {ptSetName} |->
      IF n = ptSetName THEN flag ELSE updated[n] ]

\* lines 1306-1366; the coordinates ADflow hands over match the surfaces of
\* the manager or not.
addPointSet ==
  /\ AtTop
  /\ \E ptSetName \in PtSetNames, match \in BOOLEAN :
       LET raised == IF ~match THEN "ValueError"
                     ELSE IF ptSetName \in Keys(self.points) THEN "NameError"
                     ELSE ""
       IN  /\ call' = Called("addPointSet", <<ptSetName>>, raised)
           /\ self' = IF raised = ""
                        THEN [ self EXCEPT
                                 !.points = Assigned(@,
                                    [ name |-> ptSetName,
                                      coor |-> self.surface ]),
                                 !.updated = Flagged(@, ptSetName, TRUE) ]
                        ELSE self
  /\ UNCHANGED <<hist, notManager>>

\* The loop of lines 1440-1441 over no point set at all.
AllOutdatedSkipped(s) == s.updated

\* lines 1440-1441
AllOutdated(s) ==
  [ n \in (DOMAIN s.updated) \cup Keys(s.points) |->
      IF n \in Keys(s.points) THEN FALSE ELSE s.updated[n] ]

\* lines 1402-1445
setDesignVars ==
  /\ AtTop
  /\ call' = Called("setDesignVars", <<>>, "")
  /\ self' = [ self EXCEPT !.updated = AllOutdated(self) ]
  /\ hist' = [ hist EXCEPT
                 !.outdated = @ \cup Keys(self.points),
                 !.late = (@ \cup (PtSetNames \ Keys(self.points)))
                            \ Keys(self.points) ]
  /\ UNCHANGED notManager

\* lines 1488-1514: the manipulators update the surfaces, run_baseFunction
\* clears and starts the base function.
update ==
  /\ AtTop
  /\ self.surface < MaxUpdates
  /\ \E ptSetName \in {None} \cup { Some(n) : n \in PtSetNames } :
       IF self.baseFunction
         THEN /\ self' = [ Cleared(self) EXCEPT
                             !.surface = @ + 1,
                             !.frame = "update",
                             !.ptSetName = ptSetName ]
              /\ call' = Clearing("update", <<ptSetName>>, "")
         ELSE /\ self' = [ Cleared(self) EXCEPT !.surface = @ + 1 ]
              /\ call' = Clearing("update", <<ptSetName>>, "AttributeError")
  /\ hist' = [ hist EXCEPT !.removed = FALSE ]
  /\ UNCHANGED notManager

\* lines 1516-1528: the base function has returned to update
update_return ==
  /\ self.frame = "update"
  /\ call' = [ Called("update", <<self.ptSetName>>, "") EXCEPT
                 !.nr = call.nr ]
  /\ IF self.ptSetName = None
       THEN /\ self' = Unwound(self)
            /\ UNCHANGED hist
       ELSE /\ self' = [ Unwound(self) EXCEPT
                           !.points = Assigned(@,
                              [ name |-> self.ptSetName.val,
                                coor |-> self.surface ]),
                           !.updated = Flagged(@, self.ptSetName.val, TRUE) ]
            /\ hist' = [ hist EXCEPT
                           !.outdated = @ \ {self.ptSetName.val},
                           !.late = @ \ {self.ptSetName.val} ]
  /\ UNCHANGED notManager

\* lines 1553-1554 and 1607-1608: the exception of the test, "" if it passes
Outdated(s, ptSetName) ==
  IF ptSetName \notin DOMAIN s.updated THEN "KeyError"
  ELSE IF ~s.updated[ptSetName] THEN "NameError"
  ELSE ""

\* lines 1552-1568 (mode "d") and 1606-1620 (mode "b"): the test, then the
\* seeds are set and the AD pass runs; what the call leaves in `call`
Sensitivity(method, mode, pass, ptSetName) ==
  LET raised == Outdated(self, ptSetName)
      run == Replay(self, mode,
                    IF mode = "d" THEN Forward(Len(self.tasks))
                    ELSE Backward(Len(self.tasks)))
  IN  IF raised # ""
        THEN Called(method, <<ptSetName>>, raised)
        ELSE [ method |-> method, arg |-> <<ptSetName>>,
               raised |-> run.raised, ad |-> pass,
               ran |-> run.ran, seeded |-> TRUE,
               dropped |-> <<>>, nr |-> call.nr + 1 ]

\* lines 1530-1571
totalSensitivityProd ==
  /\ AtTop
  /\ \E ptSetName \in PtSetNames :
       call' = Sensitivity("totalSensitivityProd", "d", "forwardAD",
                           ptSetName)
  /\ UNCHANGED <<self, hist, notManager>>

\* lines 1573-1625
totalSensitivity ==
  /\ AtTop
  /\ \E ptSetName \in PtSetNames :
       call' = Sensitivity("totalSensitivity", "b", "reverseAD", ptSetName)
  /\ UNCHANGED <<self, hist, notManager>>

\* A script that builds geometry: it registers and removes objects, runs
\* the operations and replays the tasks.
ManagerNext ==
  \/ add_geometry \/ remove_geometry \/ add_curve \/ remove_curve
  \/ add_meshGenerator \/ remove_meshGenerator \/ clear_all
  \/ intersect \/ remesh_intCurve \/ split_intCurve \/ merge_intCurves
  \/ march_intCurve_surfaceMesh \/ forwardAD \/ reverseAD

ManagerSpec == ManagerInit /\ [][ManagerNext]_vars

\* An optimisation script driving the Manager through the MACH interface:
\* it registers the geometries and assigns a base function that intersects
\* them and marches meshes, then works with point sets and design variables.
MachNext ==
  \/ add_geometry \/ intersect \/ march_intCurve_surfaceMesh \/ clear_all
  \/ assign_baseFunction \/ run_baseFunction \/ base_return
  \/ addPointSet \/ setDesignVars \/ update \/ update_return
  \/ totalSensitivityProd \/ totalSensitivity

MachSpec == ManagerInit /\ [][MachNext]_vars

\* The Manager is a well-formed record in every state.
ManagerTypeOK ==
  /\ self.frame \in {"user", "base", "update"}
  /\ Len(self.tasks) <= MaxTasks
  /\ self.surface <= MaxUpdates
  /\ call.nr <= MaxCalls

\* -------------------------------------------------------- replay order
\* The task a routine belongs to and the routines of the forward pass, as
\* the method names of managerClass.py spell them.
TaskOfRoutine(routine) ==
  CASE routine \in {"_intersect_d", "_intersect_b"} -> "intersect"
    [] routine \in {"_remesh_intCurve_d", "_remesh_intCurve_b"} ->
         "remesh_intCurve"
    [] routine \in {"_split_intCurve_d", "_split_intCurve_b"} ->
         "split_intCurve"
    [] routine \in {"_merge_intCurves_d", "_merge_intCurves_b"} ->
         "merge_intCurves"
    [] routine \in {"_march_intCurve_surfaceMesh_d",
                    "_march_intCurve_surfaceMesh_b"} ->
         "march_intCurve_surfaceMesh"

DerivativeRoutines ==
  { "_intersect_d", "_remesh_intCurve_d", "_split_intCurve_d",
    "_merge_intCurves_d", "_march_intCurve_surfaceMesh_d" }

\* C24: a call of forwardAD runs, for the first, second, ... task of
\* self.tasks in this order, the derivative routine of that task with the
\* task's arguments; a call of reverseAD runs the reverse routines for the
\* last, last but one, ... task; when the call returns every task has had
\* its routine run exactly once; and the call leaves self.tasks as it was.
ReplayOrder ==
  [][ call'.method \in {"forwardAD", "reverseAD"} =>
        LET numTasks == Len(self.tasks)
            ran == call'.ran
        IN  /\ self'.tasks = self.tasks
            /\ call'.raised = "" => Len(ran) = numTasks
            /\ Len(ran) <= numTasks
            /\ \A k \in DOMAIN ran :
                 LET taskID == IF call'.method = "forwardAD" THEN k - 1
                               ELSE numTasks - k
                     task == self.tasks[taskID + 1]
                 IN  /\ ran[k].taskID = taskID
                     /\ TaskOfRoutine(ran[k].routine) = task[1]
                     /\ (ran[k].routine \in DerivativeRoutines)
                          <=> (call'.method = "forwardAD")
                     /\ ran[k].taskArg = Tail(task)
    ]_vars

\* reverseAD has returned after replaying two tasks of different kinds
ReplayOrderWitness ==
  /\ call.method = "reverseAD"
  /\ call.raised = ""
  /\ Len(self.tasks) = 2
  /\ Len(call.ran) = 2
  /\ self.tasks[1][1] # self.tasks[2][1]

\* ----------------------------------------------------- stale point sets
SensitivityMethods == {"totalSensitivityProd", "totalSensitivity"}

\* hist.outdated holds the point sets registered when setDesignVars was last
\* called and not updated since, hist.late the names that were not yet
\* registered then and have not been updated since.
AwaitingUpdate == hist.outdated \cup hist.late

\* C25: a call of totalSensitivityProd or totalSensitivity for a point set
\* flagged outdated raises NameError, runs no AD pass and sets no seed; and
\* no AD pass runs for a point set between a call of setDesignVars and the
\* next update(ptSetName) for that point set.
NoStalePropagation ==
  call.method \in SensitivityMethods =>
    LET ptSetName == call.arg[1] IN
    /\ (ptSetName \in DOMAIN self.updated /\ ~self.updated[ptSetName]) =>
         /\ call.raised = "NameError"
         /\ call.ad = ""
         /\ ~call.seeded
    /\ (call.ad # "" \/ call.seeded) => ptSetName \notin AwaitingUpdate

\* The first half of C25 alone: an outdated flag stops the call.
OutdatedFlagStops ==
  call.method \in SensitivityMethods =>
    LET ptSetName == call.arg[1] IN
    (ptSetName \in DOMAIN self.updated /\ ~self.updated[ptSetName]) =>
       /\ call.raised = "NameError"
       /\ call.ad = ""
       /\ ~call.seeded

\* ------------------------------------------------------ freshness flags
\* update hands over: the base function has returned and update goes on to
\* store the points.
UpdateReturns == self.frame = "update" /\ call'.method = "update"

\* C26: self.updated has exactly the keys of self.points in every state;
\* setDesignVars sets the flag of every registered point set to False and
\* registers none; a successful addPointSet adds one set, flagged True, and
\* leaves the other flags alone; update(ptSetName), when it returns, sets
\* the flag of ptSetName to True and leaves the other flags alone; and no
\* other step of a call changes a flag.
FreshnessFlags ==
  /\ [](DOMAIN self.updated = Keys(self.points))
  /\ [][ LET before == self.updated
             after == self'.updated
             others(n) == \A o \in (DOMAIN before) \ {n} :
                            o \in DOMAIN after /\ after[o] = before[o]
         IN  IF call'.method = "setDesignVars"
               THEN /\ DOMAIN after = DOMAIN before
                    /\ \A n \in DOMAIN after : after[n] = FALSE
             ELSE IF call'.method = "addPointSet" /\ call'.raised = ""
               THEN /\ call'.arg[1] \notin DOMAIN before
                    /\ DOMAIN after = (DOMAIN before) \cup {call'.arg[1]}
                    /\ after[call'.arg[1]] = TRUE
                    /\ others(call'.arg[1])
             ELSE IF UpdateReturns /\ self.ptSetName # None
               THEN /\ DOMAIN after
                         = (DOMAIN before) \cup {self.ptSetName.val}
                    /\ after[self.ptSetName.val] = TRUE
                    /\ others(self.ptSetName.val)
             ELSE after = before
     ]_vars

\* update('p1') has returned while 'p2', outdated by setDesignVars, is
\* still flagged outdated
FreshnessFlagsWitness ==
  /\ call.method = "update"
  /\ call.raised = ""
  /\ self.frame = "user"
  /\ call.arg[1] # None
  /\ call.arg[1].val = "p1"
  /\ DOMAIN self.updated = {"p1", "p2"}
  /\ self.updated["p1"]
  /\ ~self.updated["p2"]
  /\ hist.outdated = {"p2"}

\* --------------------------------------------------------- unique names
\* C27: add_geometry and add_curve raise NameError exactly when the name of
\* the object is already a key of the dictionary, and then leave the whole
\* Manager, that dictionary included, as it was; otherwise they append the
\* object; remesh_intCurve and split_intCurve raise when the curve named is
\* not registered, raise when a curve they produce carries a registered
\* name, and whenever they raise they append no task.
UniqueNames ==
  [][ /\ call'.method = "add_geometry" =>
           IF call'.arg[1].name \in Keys(self.geoms)
             THEN call'.raised = "NameError" /\ self' = self
             ELSE /\ call'.raised = ""
                  /\ self'.geoms = Append(self.geoms, call'.arg[1])
      /\ call'.method = "add_curve" =>
           IF call'.arg[1].name \in Keys(self.intCurves)
             THEN call'.raised = "NameError" /\ self' = self
             ELSE /\ call'.raised = ""
                  /\ self'.intCurves = Append(self.intCurves, call'.arg[1])
      /\ call'.method \in {"remesh_intCurve", "split_intCurve"} =>
           /\ call'.arg[1] \notin Keys(self.intCurves) =>
                call'.raised = "NameError" /\ self' = self
           /\ call'.raised = "" =>
                /\ Keys(self.intCurves) \subseteq Keys(self'.intCurves)
                /\ Len(self'.intCurves)
                     = Cardinality(Keys(self'.intCurves))
                /\ Len(self'.tasks) = Len(self.tasks) + 1
           /\ call'.raised # "" => self'.tasks = self.tasks
      /\ (call'.method = "remesh_intCurve" /\ call'.raised = "") =>
           Last(self'.tasks)[2] \notin Keys(self.intCurves)
      /\ (call'.method = "split_intCurve" /\ call'.raised = "") =>
           \A k \in DOMAIN Last(self'.tasks)[3] :
             Last(self'.tasks)[3][k] \notin Keys(self.intCurves)
    ]_vars

\* remesh_intCurve has raised NameError on a registered curve, the name of
\* the new curve being taken, with a task recorded before
UniqueNamesWitness ==
  /\ call.method = "remesh_intCurve"
  /\ call.raised = "NameError"
  /\ call.arg[1] \in Keys(self.intCurves)
  /\ Len(self.tasks) = 1
  /\ Len(self.geoms) = 2

\* ------------------------------------------------------------ clear_all
\* C28: a call of clear_all, and a call of run_baseFunction or update
\* before the base function starts, leaves the curves, the mesh generators
\* and the task list empty, and leaves the registered geometries, the point
\* sets and their flags as they were.
ClearKeepsRegistered ==
  [][ (self.frame = "user"
         /\ call'.method \in {"clear_all", "run_baseFunction", "update"}) =>
        /\ self'.intCurves = <<>>
        /\ DOMAIN self'.meshGenerators = {}
        /\ self'.tasks = <<>>
        /\ self'.geoms = self.geoms
        /\ self'.points = self.points
        /\ self'.updated = self.updated
    ]_vars

\* clear_all has dropped curves, mesh generators and tasks of a Manager
\* that holds two geometries and a point set
ClearKeepsRegisteredWitness ==
  /\ call.method = "clear_all"
  /\ \A k \in 1..3 : call.dropped[k] >= 1
  /\ Len(self.geoms) = 2
  /\ Len(self.points) >= 1
  /\ self.intCurves = <<>>

\* ---------------------------------------------------- mesh generator removal
\* C29: remove_meshGenerator(name), called with the name of a registered
\* mesh generator, returns, having removed that entry from
\* self.meshGenerators and left every other entry in place.
MeshGeneratorRemoved ==
  [][ (call'.method = "remove_meshGenerator"
         /\ call'.arg[1] \in DOMAIN self.meshGenerators) =>
        /\ call'.raised = ""
        /\ DOMAIN self'.meshGenerators
             = (DOMAIN self.meshGenerators) \ {call'.arg[1]}
        /\ \A n \in DOMAIN self'.meshGenerators :
             self'.meshGenerators[n] = self.meshGenerators[n]
    ]_vars

\* -------------------------------------------------------- task recording
Operations ==
  { "intersect", "remesh_intCurve", "split_intCurve", "merge_intCurves",
    "march_intCurve_surfaceMesh" }

\* the curve names stored in a task
CurvesOfTask(task) ==
  CASE task[1] = "intersect" -> { task[3][k] : k \in DOMAIN task[3] }
    [] task[1] = "remesh_intCurve" -> { task[2], task[3] }
    [] task[1] = "split_intCurve" ->
         {task[2]} \cup { task[3][k] : k \in DOMAIN task[3] }
    [] task[1] = "merge_intCurves" ->
         {task[3]} \cup { task[2][k] : k \in DOMAIN task[2] }
    [] task[1] = "march_intCurve_surfaceMesh" -> {task[2]}

\* the mesh names a march task stands for: those noted in its curve
MeshesOfTask(task) ==
  IF task[1] = "march_intCurve_surfaceMesh"
       /\ task[2] \in Keys(self.intCurves)
       /\ Lookup(self.intCurves, task[2]).childMeshes # None
    THEN LET childMeshes == Lookup(self.intCurves, task[2]).childMeshes.val
         IN  { childMeshes[k] : k \in DOMAIN childMeshes }
    ELSE {}

====
